---------------------------- MODULE Spec2Model ----------------------------
(***************************************************************************)
(* Model of pen_test_report_anonymiser.py (class DocxPentestAnonymiser).   *)
(*                                                                         *)
(* A text is a sequence of one-character strings.  The six regular         *)
(* expressions of _compile_patterns are written as syntax trees and        *)
(* matched by a backtracking matcher that lists the possible match ends in *)
(* the order Python's re module tries them (greedy first), so that the     *)
(* first element is the match re finds.                                    *)
(***************************************************************************)
EXTENDS Integers, Sequences, FiniteSets, TLC

(***************************************************************************)
(* Character classes used by the patterns.                                 *)
(***************************************************************************)
Digit == {"0", "1", "2", "3", "4", "5", "6", "7", "8", "9"}

LowerSeq == <<"a", "b", "c", "d", "e", "f", "g", "h", "i", "j", "k", "l", "m",
             "n", "o", "p", "q", "r", "s", "t", "u", "v", "w", "x", "y", "z">>

UpperSeq == <<"A", "B", "C", "D", "E", "F", "G", "H", "I", "J", "K", "L", "M",
             "N", "O", "P", "Q", "R", "S", "T", "U", "V", "W", "X", "Y", "Z">>

Lower == {LowerSeq[k] : k \in 1..Len(LowerSeq)}

Upper == {UpperSeq[k] : k \in 1..Len(UpperSeq)}

Alpha == Lower \cup Upper

HexDigit == Digit \cup {"a", "b", "c", "d", "e", "f", "A", "B", "C", "D", "E", "F"}

\* \s
Space == {" ", "\t", "\n"}

\* punctuation that occurs in the modelled texts
Punct == {".", "-", "_", "@", ":", "/", "%", "+", "(", ")", ","}

\* every character a modelled text can hold
Alphabet == Alpha \cup Digit \cup Space \cup Punct

\* \w : what \b looks at
WordChar == Alpha \cup Digit \cup {"_"}

(***************************************************************************)
(* Regular-expression syntax trees.                                        *)
(***************************************************************************)
Cls(S) == [t |-> "cls", set |-> S]

Lit(c) == Cls({c})

\* a letter under re.IGNORECASE
LitI(lo, up) == Cls({lo, up})

WB == [t |-> "wb"]

Cat(rs) == [t |-> "cat", rs |-> rs]

\* greedy r{lo,hi}
Rep(r, lo, hi) == [t |-> "rep", r |-> r, lo |-> lo, hi |-> hi, unb |-> FALSE]

\* greedy r{lo,}  (r+ is RepFrom(r, 1))
RepFrom(r, lo) == [t |-> "rep", r |-> r, lo |-> lo, hi |-> lo, unb |-> TRUE]

IsWordAt(s, i) == i >= 1 /\ i <= Len(s) /\ s[i] \in WordChar

(***************************************************************************)
(* Ends(r, s, i): the positions at which a match of r that starts at       *)
(* position i of s can end (the index of the next unread character), in    *)
(* the order a backtracking matcher tries them.                            *)
(***************************************************************************)
\* the number of consecutive characters of s from position i that are in set
ClsRun(set, s, i) ==
  LET bad == {j \in i..Len(s) : s[j] \notin set}
  IN  IF bad = {} THEN Len(s) + 1 - i
      ELSE (CHOOSE j \in bad : \A k \in bad : j <= k) - i

\* a greedy repeat of one character class: the longest run first, then one
\* character fewer at a time down to the minimum count
ClsRepEnds(r, s, i) ==
  LET run == ClsRun(r.r.set, s, i)
      top == IF r.unb \/ run < r.hi THEN run ELSE r.hi
  IN  IF top < r.lo THEN <<>>
      ELSE [k \in 1..(top - r.lo + 1) |-> i + top - k + 1]

RECURSIVE Ends(_, _, _), CatEnds(_, _, _, _), CatEach(_, _, _, _),
          RepEnds(_, _, _, _), RepEach(_, _, _, _)

Ends(r, s, i) ==
  CASE r.t = "cls" -> IF i <= Len(s) /\ s[i] \in r.set THEN <<i + 1>> ELSE <<>>
    [] r.t = "wb"  -> IF IsWordAt(s, i - 1) # IsWordAt(s, i) THEN <<i>> ELSE <<>>
    [] r.t = "cat" -> CatEnds(r.rs, 1, s, i)
    [] r.t = "rep" -> RepEnds(r, s, i, 0)

CatEnds(rs, k, s, i) ==
  IF k > Len(rs) THEN <<i>> ELSE CatEach(rs, k, s, Ends(rs[k], s, i))

CatEach(rs, k, s, js) ==
  IF js = <<>> THEN <<>>
  ELSE CatEnds(rs, k + 1, s, Head(js)) \o CatEach(rs, k, s, Tail(js))

RepEnds(r, s, i, n) ==
  IF r.r.t = "cls" THEN ClsRepEnds(r, s, i)
  ELSE
  LET more == IF r.unb \/ n < r.hi
              THEN RepEach(r, s, SelectSeq(Ends(r.r, s, i), LAMBDA j : j > i), n + 1)
              ELSE <<>>
      stop == IF n >= r.lo THEN <<i>> ELSE <<>>
  IN  more \o stop

RepEach(r, s, js, n) ==
  IF js = <<>> THEN <<>>
  ELSE RepEnds(r, s, Head(js), n) \o RepEach(r, s, Tail(js), n)

\* the end of the match re finds at position i, or 0 when there is none
MatchEnd(r, s, i) ==
  LET e == Ends(r, s, i) IN IF e = <<>> THEN 0 ELSE Head(e)

(***************************************************************************)
(* _compile_patterns                                                       *)
(***************************************************************************)
\* the IPv4 pattern with one dotted group too few
IPv4PatternShort ==
  Cat(<<WB, Rep(Cat(<<Rep(Cls(Digit), 1, 3), Lit(".")>>), 2, 2),
        Rep(Cls(Digit), 1, 3), WB>>)

\* \b(?:\d{1,3}\.){3}\d{1,3}\b
IPv4Pattern ==
  Cat(<<WB, Rep(Cat(<<Rep(Cls(Digit), 1, 3), Lit(".")>>), 3, 3),
        Rep(Cls(Digit), 1, 3), WB>>)

\* \bhttps?://[^\s]+
URLPattern ==
  Cat(<<WB, Lit("h"), Lit("t"), Lit("t"), Lit("p"), Rep(Lit("s"), 0, 1),
        Lit(":"), Lit("/"), Lit("/"), RepFrom(Cls(Alphabet \ Space), 1)>>)

\* \b[a-zA-Z0-9._%+-]+@[a-zA-Z0-9.-]+\.[a-zA-Z]{2,}\b
EmailPattern ==
  Cat(<<WB, RepFrom(Cls(Alpha \cup Digit \cup {".", "_", "%", "+", "-"}), 1),
        Lit("@"), RepFrom(Cls(Alpha \cup Digit \cup {".", "-"}), 1),
        Lit("."), RepFrom(Cls(Alpha), 2), WB>>)

\* \b(?:[0-9A-Fa-f]{2}:){5}[0-9A-Fa-f]{2}\b
MACPattern ==
  Cat(<<WB, Rep(Cat(<<Rep(Cls(HexDigit), 2, 2), Lit(":")>>), 5, 5),
        Rep(Cls(HexDigit), 2, 2), WB>>)

\* \bport\s+\d{1,5}\b   with re.IGNORECASE
PortPattern ==
  Cat(<<WB, LitI("p", "P"), LitI("o", "O"), LitI("r", "R"), LitI("t", "T"),
        RepFrom(Cls(Space), 1), Rep(Cls(Digit), 1, 5), WB>>)

\* the hostname pattern with the dotted labels optional: (?:...)* for (?:...)+
HostnamePatternNoDot ==
  Cat(<<WB, RepFrom(Cat(<<RepFrom(Cls(Alpha \cup Digit \cup {"-"}), 1), Lit(".")>>), 0),
        RepFrom(Cls(Alpha), 2), WB>>)

\* \b(?:[a-zA-Z0-9-]+\.)+[a-zA-Z]{2,}\b
HostnamePattern ==
  Cat(<<WB, RepFrom(Cat(<<RepFrom(Cls(Alpha \cup Digit \cup {"-"}), 1), Lit(".")>>), 1),
        RepFrom(Cls(Alpha), 2), WB>>)

\* the pattern list with the IPv4 pattern applied last instead of first
compile_patterns_ipv4_last ==
  <<URLPattern, EmailPattern, MACPattern, PortPattern, HostnamePattern, IPv4Pattern>>

compile_patterns ==
  <<IPv4Pattern, URLPattern, EmailPattern, MACPattern, PortPattern, HostnamePattern>>

patterns == compile_patterns

NumPatterns == Len(patterns)

(***************************************************************************)
(* _mask_match and pattern.sub(self._mask_match, text)                     *)
(***************************************************************************)
\* a mask one character shorter than the match
mask_match_short(m) == [k \in 1..(Len(m) - 1) |-> "x"]

mask_match(m) == [k \in 1..Len(m) |-> "x"]

RECURSIVE SubFrom(_, _, _)
\* the text from position i on, every non-overlapping match replaced
SubFrom(r, s, i) ==
  IF i > Len(s) THEN <<>>
  ELSE LET e == MatchEnd(r, s, i)
       IN  IF e > i
           THEN mask_match(SubSeq(s, i, e - 1)) \o SubFrom(r, s, e)
           ELSE <<s[i]>> \o SubFrom(r, s, i + 1)

Sub(r, s) == SubFrom(r, s, 1)

RECURSIVE ApplyFrom(_, _)
ApplyFrom(text, k) ==
  IF k > NumPatterns THEN text ELSE ApplyFrom(Sub(patterns[k], text), k + 1)

anonymise_text(text) == ApplyFrom(text, 1)

(***************************************************************************)
(* Input texts.                                                            *)
(***************************************************************************)
\* the longest input is MaxFrags fragments
MaxFrags == 3

\* pieces of report text: each pattern has a match or a near match in them
Fragments ==
  { <<"a", "@">>,
    <<"-", ".">>,
    <<"1", "1", ":", "2", "2", ":", "3", "3", ":", "4", "4", ":", "5", "5", ":", "6", "6">>,
    <<"1", ".", "2", ".", "3", ".", "4">>,
    <<"P", "o", "r", "t", " ", "8", "0">>,
    <<"C", "V", "E", "-", "2", "0", "2", "3", "-", "1", "2", "3", "4">>,
    <<".", "b", "b">>,
    <<" ">>,
    <<"h", "t", "t", "p", ":", "/", "/">> }

RECURSIVE FragTexts(_)
\* every concatenation of at most n fragments
FragTexts(n) ==
  IF n = 0 THEN {<<>>}
  ELSE LET shorter == FragTexts(n - 1)
       IN  shorter \cup {t \o f : t \in shorter, f \in Fragments}

\* the digits CVE identifiers are built from
CveDigits == {"0", "9"}

\* the longest sequence number of a CVE identifier
MaxCveSeq == 5

DigitStrings(n) == [1..n -> CveDigits]

\* CVE-<4 digits>-<4 or more digits>
CveIds ==
  { <<"C", "V", "E", "-">> \o y \o <<"-">> \o q :
      y \in DigitStrings(4),
      q \in UNION {DigitStrings(n) : n \in 4..MaxCveSeq} }

(***************************************************************************)
(* The document tree python-docx hands out.  A run is [text, bold]; a      *)
(* paragraph is its sequence of runs; a table is a sequence of rows, a row *)
(* a sequence of cells, a cell [paragraphs, tables]; a header or footer    *)
(* is [paragraphs, tables]; a section is [header, footer]; a document is   *)
(* [paragraphs, tables, sections].                                         *)
(***************************************************************************)
\* _process_runs
process_runs(paragraph) ==
  [k \in 1..Len(paragraph) |->
     IF paragraph[k].text # <<>>
     THEN [paragraph[k] EXCEPT !.text = anonymise_text(@)]
     ELSE paragraph[k]]

\* _process_paragraphs
process_paragraphs(paragraphs) ==
  [k \in 1..Len(paragraphs) |-> process_runs(paragraphs[k])]

\* _process_tables that does not descend into cell.tables
process_tables_flat(tables) ==
  [t \in 1..Len(tables) |->
     [r \in 1..Len(tables[t]) |->
        [c \in 1..Len(tables[t][r]) |->
           [tables[t][r][c] EXCEPT !.paragraphs = process_paragraphs(@)]]]]

RECURSIVE process_tables(_)
\* _process_tables
process_tables(tables) ==
  [t \in 1..Len(tables) |->
     [r \in 1..Len(tables[t]) |->
        [c \in 1..Len(tables[t][r]) |->
           [paragraphs |-> process_paragraphs(tables[t][r][c].paragraphs),
            tables     |-> process_tables(tables[t][r][c].tables)]]]]

\* _process_headers_footers
process_headers_footers(d) ==
  [d EXCEPT !.sections =
     [k \in 1..Len(d.sections) |->
        [header |-> [paragraphs |-> process_paragraphs(d.sections[k].header.paragraphs),
                     tables     |-> process_tables(d.sections[k].header.tables)],
         footer |-> [paragraphs |-> process_paragraphs(d.sections[k].footer.paragraphs),
                     tables     |-> process_tables(d.sections[k].footer.tables)]]]]

(***************************************************************************)
(* Documents to process.                                                   *)
(***************************************************************************)
\* how deep the body table nests tables in cells
MaxDepth == 2

\* how many sections a document has
NumSections == 1

SensitiveText == <<"a", "t", " ", "1", ".", "2", ".", "3", ".", "4">>

PlainText == <<"o", "k">>

\* the runs a document is built from: an empty one, one to mask, one to keep
RunSet ==
  { [text |-> <<>>, bold |-> TRUE],
    [text |-> SensitiveText, bold |-> FALSE],
    [text |-> PlainText, bold |-> TRUE] }

\* a cell beside the nested one, with nothing to mask
SiblingCell ==
  [paragraphs |-> << <<[text |-> PlainText, bold |-> FALSE]>> >>, tables |-> <<>>]

RECURSIVE NestedTables(_)
\* one-row tables whose first cell holds a paragraph and, below depth 1, a
\* table of the next depth
NestedTables(d) ==
  { << <<[paragraphs |-> << <<r>> >>, tables |-> ts], SiblingCell>> >> :
      r \in RunSet,
      ts \in (IF d = 1 THEN {<<>>} ELSE {<<t>> : t \in NestedTables(d - 1)}) }

\* a section: a header of one paragraph, a footer of one table with the
\* same run in its first cell
SectionSet ==
  { [header |-> [paragraphs |-> << <<h>> >>, tables |-> <<>>],
     footer |-> [paragraphs |-> <<>>,
                 tables |-> << << <<[paragraphs |-> << <<h>> >>, tables |-> <<>>],
                                  SiblingCell>> >> >>]] :
      h \in RunSet }

Documents ==
  { [paragraphs |-> << <<a, b>> >>, tables |-> <<t>>, sections |-> ss] :
      a \in RunSet, b \in RunSet, t \in NestedTables(MaxDepth),
      ss \in [1..NumSections -> SectionSet] }

\* the document of the files whose content does not matter
SmallDocument ==
  [paragraphs |-> << <<[text |-> SensitiveText, bold |-> FALSE]>> >>,
   tables |-> <<>>, sections |-> <<>>]

(***************************************************************************)
(* Folders to process.  A file name is a sequence of characters.           *)
(***************************************************************************)
\* the prefix of anonymise_docx's output file name
Prefix == <<"A", "n", "o", "n", "y", "m", "i", "s", "e", "d", "_">>

ReportName == <<"r", "e", "p", "o", "r", "t", ".", "d", "o", "c", "x">>

DirectoryNames == {<<"o", "l", "d", ".", "d", "o", "c", "x">>}

NotesName == <<"n", "o", "t", "e", "s", ".", "t", "x", "t">>

FileNames ==
  { ReportName,
    Prefix \o ReportName,
    NotesName,
    <<"S", "c", "a", "n", ".", "D", "O", "C", "X">>,
    <<"a", "n", "o", "n", "y", "m", "i", "s", "e", "d", "_", "b", ".", "d", "o", "c", "x">>,
    <<".", "d", "o", "c", "x">> }

\* the largest number of entries in the folder
MaxEntries == 3

\* str.lower()
ToLower(c) ==
  IF c \in Upper THEN LowerSeq[CHOOSE k \in 1..Len(UpperSeq) : UpperSeq[k] = c] ELSE c

lower(s) == [k \in 1..Len(s) |-> ToLower(s[k])]

\* str.startswith
startswith(s, p) == Len(s) >= Len(p) /\ SubSeq(s, 1, Len(p)) = p

\* pathlib's Path.suffix of a file name: from the last dot on, when that dot
\* is neither the first nor the last character
suffix(name) ==
  LET dots == {k \in 1..Len(name) : name[k] = "."}
      i    == IF dots = {} THEN 0 ELSE CHOOSE k \in dots : \A j \in dots : j <= k
  IN  IF 1 < i /\ i < Len(name) THEN SubSeq(name, i, Len(name)) ELSE <<>>

\* the filter of process_folder's list comprehension, accepting any .docx path
is_target_any(d, n) ==
  lower(suffix(n)) = <<".", "d", "o", "c", "x">>

\* the filter of process_folder's list comprehension
is_target(d, n) ==
  /\ d[n].kind = "file"
  /\ lower(suffix(n)) = <<".", "d", "o", "c", "x">>
  /\ ~startswith(n, Prefix)

\* new_file_name
new_file_name(n) == Prefix \o n

\* the orders in which iterdir can yield the files of set S
Orderings(S) ==
  {f \in [1..Cardinality(S) -> S] : \A a, b \in 1..Cardinality(S) : a # b => f[a] # f[b]}

\* an except clause that catches whatever is raised
catches_all(kind) == TRUE

\* an except clause that catches nothing
catches_none(kind) == FALSE

\* except Exception as e:  in anonymise_docx
docx_catches(kind) == kind = "Exception"

\* except KeyboardInterrupt:  in process_folder
folder_catches_interrupt(kind) == kind = "KeyboardInterrupt"

\* what a step of anonymise_docx can raise
Raisable == {"Exception", "KeyboardInterrupt"}

(***************************************************************************)
(* State.                                                                  *)
(***************************************************************************)
VARIABLES
  input,   \* the text anonymise_text was called with
  text,    \* the local variable text of anonymise_text
  pass,    \* how many patterns the loop has applied
  first    \* <<>>, or <<r>> once a first call has returned r and
           \* anonymise_text runs again on r

VARIABLES
  folder_ok, \* folder.exists() and folder.is_dir()
  disk,      \* the entries of the folder: name -> [kind, content]
  files,     \* the list process_folder collected
  idx,       \* how many files the loop has taken from the list
  pc,        \* where process_folder / anonymise_docx stands
  doc,       \* <<>>, or <<d>> for the document anonymise_docx holds
  started,   \* the files anonymise_docx was called with, in call order
  writes,    \* the paths doc.save wrote to, with the file each came from
  console,   \* what was printed
  interrupted \* the operator has sent the interrupt

textVars == <<input, text, pass, first>>

batchVars ==
  <<folder_ok, disk, files, idx, pc, doc, started, writes, console, interrupted>>

vars == <<input, text, pass, first,
          folder_ok, disk, files, idx, pc, doc, started, writes, console, interrupted>>

(***************************************************************************)
(* anonymise_text, one loop iteration at a time.                           *)
(***************************************************************************)
\* for pattern in self.patterns: text = pattern.sub(self._mask_match, text)
ApplyPattern ==
  /\ pass < NumPatterns
  /\ text' = Sub(patterns[pass + 1], text)
  /\ pass' = pass + 1
  /\ UNCHANGED <<input, first>>
  /\ UNCHANGED batchVars

\* return text, and the caller hands the returned text to anonymise_text again
Reapply ==
  /\ pass = NumPatterns
  /\ first = <<>>
  /\ first' = <<text>>
  /\ pass' = 0
  /\ UNCHANGED <<input, text>>
  /\ UNCHANGED batchVars

NextText == ApplyPattern \/ Reapply

TextStart ==
  /\ text = input
  /\ pass = 0
  /\ first = <<>>

\* no folder is being processed
BatchIdle ==
  /\ folder_ok = FALSE
  /\ disk = <<>>
  /\ files = <<>>
  /\ idx = 0
  /\ pc = "idle"
  /\ doc = <<>>
  /\ started = <<>>
  /\ writes = <<>>
  /\ console = <<>>
  /\ interrupted = FALSE

InitText == input \in FragTexts(MaxFrags) /\ TextStart /\ BatchIdle

InitCve == input \in CveIds /\ TextStart /\ BatchIdle

\* anonymise_text over texts made of report fragments
SpecText == InitText /\ [][NextText]_vars

\* anonymise_text over bare CVE identifiers
SpecCve == InitCve /\ [][NextText]_vars

(***************************************************************************)
(* process_folder and anonymise_docx, one statement at a time.             *)
(***************************************************************************)
FileEntry(d) == [kind |-> "file", content |-> <<d>>]

\* what an interrupted or failed doc.save can leave behind
PartialEntry == [kind |-> "file", content |-> <<>>]

DirEntry == [kind |-> "dir", content |-> <<>>]

\* the file anonymise_docx is working on
file_path == files[idx]

Message(m, n) == [msg |-> m, file |-> n]

\* folder = Path(folder_path) ... if not files: return
Collect ==
  /\ pc = "collect"
  /\ IF ~folder_ok
     THEN /\ console' = Append(console, Message("Invalid folder path provided.", <<>>))
          /\ pc' = "returned"
          /\ files' = files
     ELSE LET targets == {n \in DOMAIN disk : is_target(disk, n)}
          IN  IF targets = {}
              THEN /\ console' = Append(console, Message("No DOCX reports found.", <<>>))
                   /\ pc' = "returned"
                   /\ files' = files
              ELSE /\ files' \in Orderings(targets)
                   /\ pc' = "loop"
                   /\ console' = console
  /\ UNCHANGED <<folder_ok, disk, idx, doc, started, writes, interrupted>>
  /\ UNCHANGED textVars

\* for file in tqdm(files, ...): self.anonymise_docx(file)
NextFile ==
  /\ pc = "loop"
  /\ idx < Len(files)
  /\ idx' = idx + 1
  /\ started' = Append(started, files[idx + 1])
  /\ pc' = "load"
  /\ UNCHANGED <<folder_ok, disk, files, doc, writes, console, interrupted>>
  /\ UNCHANGED textVars

\* print("\nAnonymisation complete")
Complete ==
  /\ pc = "loop"
  /\ idx = Len(files)
  /\ console' = Append(console, Message("Anonymisation complete", <<>>))
  /\ pc' = "returned"
  /\ UNCHANGED <<folder_ok, disk, files, idx, doc, started, writes, interrupted>>
  /\ UNCHANGED textVars

\* doc = Document(file_path)
Load ==
  /\ pc = "load"
  /\ disk[file_path].content # <<>>
  /\ doc' = disk[file_path].content
  /\ pc' = "paragraphs"
  /\ UNCHANGED <<folder_ok, disk, files, idx, started, writes, console, interrupted>>
  /\ UNCHANGED textVars

\* self._process_paragraphs(doc.paragraphs)
ProcessBodyParagraphs ==
  /\ pc = "paragraphs"
  /\ doc' = <<[doc[1] EXCEPT !.paragraphs = process_paragraphs(@)]>>
  /\ pc' = "tables"
  /\ UNCHANGED <<folder_ok, disk, files, idx, started, writes, console, interrupted>>
  /\ UNCHANGED textVars

\* self._process_tables(doc.tables)
ProcessBodyTables ==
  /\ pc = "tables"
  /\ doc' = <<[doc[1] EXCEPT !.tables = process_tables(@)]>>
  /\ pc' = "headers_footers"
  /\ UNCHANGED <<folder_ok, disk, files, idx, started, writes, console, interrupted>>
  /\ UNCHANGED textVars

\* self._process_headers_footers(doc)
ProcessHeadersFooters ==
  /\ pc = "headers_footers"
  /\ doc' = <<process_headers_footers(doc[1])>>
  /\ pc' = "save"
  /\ UNCHANGED <<folder_ok, disk, files, idx, started, writes, console, interrupted>>
  /\ UNCHANGED textVars

\* the folder with entry e at name n
Written(n, e) == [m \in DOMAIN disk \cup {n} |-> IF m = n THEN e ELSE disk[m]]

\* new_file_path = file_path.parent / new_file_name; doc.save(new_file_path)
Save ==
  /\ pc = "save"
  /\ disk' = Written(new_file_name(file_path), FileEntry(doc[1]))
  /\ writes' = Append(writes, [path |-> new_file_name(file_path), from |-> file_path,
                               whole |-> TRUE])
  /\ doc' = <<>>
  /\ pc' = "loop"
  /\ UNCHANGED <<folder_ok, files, idx, started, console, interrupted>>
  /\ UNCHANGED textVars

FileSteps == {"load", "paragraphs", "tables", "headers_footers", "save"}

\* a statement of anonymise_docx raises: an ordinary exception is printed by
\* anonymise_docx and the loop goes on, anything else leaves anonymise_docx
\* and the loop and reaches the except clauses of process_folder.  A save
\* that raises may have begun to write its file.
Raise ==
  /\ pc \in FileSteps
  /\ \E kind \in Raisable :
       /\ kind = "KeyboardInterrupt" => ~interrupted
       /\ interrupted' = (interrupted \/ kind = "KeyboardInterrupt")
       /\ IF docx_catches(kind)
          THEN /\ console' = Append(console, Message("Error processing", file_path))
               /\ pc' = "loop"
          ELSE IF folder_catches_interrupt(kind)
          THEN /\ console' = Append(console, Message("Process interrupted by user.", <<>>))
               /\ pc' = "returned"
          ELSE /\ console' = Append(console, Message("Unexpected error occurred", <<>>))
               /\ pc' = "returned"
  /\ \/ /\ pc = "save"
        /\ disk' = Written(new_file_name(file_path), PartialEntry)
        /\ writes' = Append(writes, [path |-> new_file_name(file_path), from |-> file_path,
                                     whole |-> FALSE])
     \/ UNCHANGED <<disk, writes>>
  /\ doc' = <<>>
  /\ UNCHANGED <<folder_ok, files, idx, started>>
  /\ UNCHANGED textVars

\* the operator's interrupt arrives between two files or in the final print
InterruptLoop ==
  /\ pc = "loop"
  /\ ~interrupted
  /\ interrupted' = TRUE
  /\ console' = Append(console, Message("Process interrupted by user.", <<>>))
  /\ pc' = "returned"
  /\ UNCHANGED <<folder_ok, disk, files, idx, doc, started, writes>>
  /\ UNCHANGED textVars

\* the operator's interrupt arrives before the try statement: nothing in
\* process_folder catches it
InterruptEarly ==
  /\ pc = "collect"
  /\ ~interrupted
  /\ interrupted' = TRUE
  /\ pc' = "propagated"
  /\ UNCHANGED <<folder_ok, disk, files, idx, doc, started, writes, console>>
  /\ UNCHANGED textVars

NextBatch ==
  \/ Collect
  \/ NextFile
  \/ Complete
  \/ Load
  \/ ProcessBodyParagraphs
  \/ ProcessBodyTables
  \/ ProcessHeadersFooters
  \/ Save
  \/ Raise
  \/ InterruptLoop
  \/ InterruptEarly

\* no text is being anonymised on its own
TextIdle ==
  /\ input = <<>>
  /\ text = <<>>
  /\ pass = 0
  /\ first = <<>>

BatchStart ==
  /\ files = <<>>
  /\ idx = 0
  /\ pc = "collect"
  /\ doc = <<>>
  /\ started = <<>>
  /\ writes = <<>>
  /\ console = <<>>
  /\ interrupted = FALSE

\* the folders with at most MaxEntries entries
Folders ==
  { [n \in S |-> IF n \in DirectoryNames THEN DirEntry ELSE FileEntry(SmallDocument)] :
      S \in {T \in SUBSET (FileNames \cup DirectoryNames) : Cardinality(T) <= MaxEntries} }

InitFolder ==
  /\ folder_ok \in BOOLEAN
  /\ disk \in Folders
  /\ BatchStart
  /\ TextIdle

InitDoc ==
  /\ folder_ok = TRUE
  /\ disk \in {[n \in {ReportName} |-> FileEntry(d)] : d \in Documents}
  /\ BatchStart
  /\ TextIdle

\* process_folder over small folders of small documents
SpecFolder == InitFolder /\ [][NextBatch]_vars

\* process_folder over a folder that holds one report
SpecDoc == InitDoc /\ [][NextBatch]_vars

(***************************************************************************)
(* Properties of anonymise_text.                                           *)
(***************************************************************************)
\* the first call of anonymise_text on input has returned
FirstCallDone == pass = NumPatterns /\ first = <<>>

\* the second call, on the first call's result, has returned
SecondCallDone == pass = NumPatterns /\ first # <<>>

Xs(n) == [k \in 1..n |-> "x"]

AllDigits(s) == \A k \in 1..Len(s) : s[k] \in Digit

\* s is CVE-<4 digits>-<4 or more digits>
IsCveId(s) ==
  /\ Len(s) >= 13
  /\ SubSeq(s, 1, 4) = <<"C", "V", "E", "-">>
  /\ AllDigits(SubSeq(s, 5, 8))
  /\ s[9] = "-"
  /\ AllDigits(SubSeq(s, 10, Len(s)))

\* the spans [i, j] of s that hold a CVE identifier
CveSpans(s) ==
  {sp \in (1..Len(s)) \X (1..Len(s)) :
     sp[1] + 12 <= sp[2] /\ IsCveId(SubSeq(s, sp[1], sp[2]))}

\* C1: in the returned text every CVE identifier of the input stands
\* unchanged at its position, whatever surrounds it.
C1_CveSurvivesAnywhere ==
  FirstCallDone =>
    \A sp \in CveSpans(input) :
      SubSeq(text, sp[1], sp[2]) = SubSeq(input, sp[1], sp[2])

\* C2: a text that is exactly one CVE identifier is returned unchanged, and
\* no pass changes it on the way.
C2_BareCveUnchanged == IsCveId(input) => text = input

C2_Witness ==
  /\ FirstCallDone
  /\ IsCveId(input)
  /\ Len(input) > 13
  /\ text = input

\* s is four dot-separated groups of 1-3 digits
IsIPv4Shaped(s) ==
  \E a, b, c, d \in 1..3 :
    /\ Len(s) = a + b + c + d + 3
    /\ AllDigits(SubSeq(s, 1, a))
    /\ s[a + 1] = "."
    /\ AllDigits(SubSeq(s, a + 2, a + b + 1))
    /\ s[a + b + 2] = "."
    /\ AllDigits(SubSeq(s, a + b + 3, a + b + c + 2))
    /\ s[a + b + c + 3] = "."
    /\ AllDigits(SubSeq(s, a + b + c + 4, Len(s)))

\* the ways to write s as P \o S \o Q with S IPv4-shaped: S = s[i..j]
IPv4Splits(s) ==
  UNION { { <<i, j>> : j \in {e \in (i + 6)..(i + 14) :
                                /\ e <= Len(s)
                                /\ IsIPv4Shaped(SubSeq(s, i, e))} } :
          i \in {b \in 1..Len(s) : s[b] \in Digit} }

PrefixOf(s, sp) == SubSeq(s, 1, sp[1] - 1)

SuffixOf(s, sp) == SubSeq(s, sp[2] + 1, Len(s))

MaskedInPlace(s, sp) ==
  PrefixOf(s, sp) \o Xs(sp[2] - sp[1] + 1) \o SuffixOf(s, sp)

\* C4 as stated: whatever P and Q are, P + S + Q comes back as
\* P + x..x + Q.
C4_AnyContext ==
  FirstCallDone =>
    \A sp \in IPv4Splits(input) : text = MaskedInPlace(input, sp)

\* P and Q are set off from S by white space and hold nothing to mask
CleanContext(s, sp) ==
  LET P == PrefixOf(s, sp)
      Q == SuffixOf(s, sp)
  IN  /\ P = <<>> \/ P[Len(P)] \in Space
      /\ Q = <<>> \/ Q[1] \in Space
      /\ anonymise_text(P) = P
      /\ anonymise_text(Q) = Q

\* C4 amended: when P is empty or ends in white space, Q is empty or starts
\* with white space, and anonymise_text leaves P and Q themselves unchanged,
\* P + S + Q comes back as P + x..x + Q.
C4_CleanContext ==
  FirstCallDone =>
    \A sp \in IPv4Splits(input) :
      \/ text = MaskedInPlace(input, sp)
      \/ ~CleanContext(input, sp)

C4_Witness ==
  /\ FirstCallDone
  /\ \E sp \in IPv4Splits(input) :
       /\ PrefixOf(input, sp) # <<>>
       /\ SuffixOf(input, sp) # <<>>
       /\ CleanContext(input, sp)
       /\ text = MaskedInPlace(input, sp)

\* C5: after every pass the text has the length of the input and holds at
\* each index the input's character or an x.
C5_LengthAndPositions ==
  /\ Len(text) = Len(input)
  /\ \A k \in 1..Len(text) : text[k] = input[k] \/ text[k] = "x"

C5_Witness ==
  /\ pass > 0
  /\ pass < NumPatterns
  /\ \E k \in 1..Len(text) : text[k] = "x" /\ input[k] # "x"
  /\ \E k \in 1..Len(text) : text[k] # "x"

\* C6 as stated: a second application returns what the first returned.
C6_Idempotent == SecondCallDone => text = first[1]

HasAt(t) == \E k \in 1..Len(t) : t[k] = "@"

\* C6 amended: a second application returns what the first returned
\* whenever the text the first one returned holds no @ character.
C6_IdempotentWithoutAt ==
  (SecondCallDone /\ ~HasAt(first[1])) => text = first[1]

C6_Witness ==
  /\ SecondCallDone
  /\ ~HasAt(first[1])
  /\ first[1] # input
  /\ \E k \in 1..Len(text) : text[k] # "x"
  /\ text = first[1]

\* the positions pattern r, applied on its own to s, replaces
SpanPositions(r, s) ==
  LET m == Sub(r, s) IN {k \in 1..Len(s) : m[k] # s[k]}

\* C10: every position that one of the patterns, applied on its own to the
\* input, would replace is an x in the returned text.
C10_NoSpanLost ==
  FirstCallDone =>
    \A p \in 1..NumPatterns :
      \A k \in SpanPositions(patterns[p], input) : text[k] = "x"

(***************************************************************************)
(* Properties of the walk over one document.                               *)
(***************************************************************************)
BlankParagraphs(ps) ==
  [k \in 1..Len(ps) |-> [j \in 1..Len(ps[k]) |-> [ps[k][j] EXCEPT !.text = <<>>]]]

RECURSIVE BlankTables(_)
BlankTables(ts) ==
  [t \in 1..Len(ts) |->
     [r \in 1..Len(ts[t]) |->
        [c \in 1..Len(ts[t][r]) |->
           [paragraphs |-> BlankParagraphs(ts[t][r][c].paragraphs),
            tables     |-> BlankTables(ts[t][r][c].tables)]]]]

\* document d with the text of every run erased: its sections, tables, rows,
\* cells, paragraphs and runs in their order, and each run's formatting
ShapeOf(d) ==
  [paragraphs |-> BlankParagraphs(d.paragraphs),
   tables     |-> BlankTables(d.tables),
   sections   |->
     [k \in 1..Len(d.sections) |->
        [header |-> [paragraphs |-> BlankParagraphs(d.sections[k].header.paragraphs),
                     tables     |-> BlankTables(d.sections[k].header.tables)],
         footer |-> [paragraphs |-> BlankParagraphs(d.sections[k].footer.paragraphs),
                     tables     |-> BlankTables(d.sections[k].footer.tables)]]]]

RECURSIVE Flat(_)
\* the concatenation of a sequence of sequences
Flat(ss) == IF ss = <<>> THEN <<>> ELSE Head(ss) \o Flat(Tail(ss))

RECURSIVE TableTexts(_)
\* the run texts below a sequence of tables, nested tables included
TableTexts(ts) ==
  Flat([t \in 1..Len(ts) |->
    Flat([r \in 1..Len(ts[t]) |->
      Flat([c \in 1..Len(ts[t][r]) |->
        Flat([k \in 1..Len(ts[t][r][c].paragraphs) |->
               [j \in 1..Len(ts[t][r][c].paragraphs[k]) |->
                  ts[t][r][c].paragraphs[k][j].text]])
        \o TableTexts(ts[t][r][c].tables)])])])

ParagraphTexts(ps) ==
  Flat([k \in 1..Len(ps) |-> [j \in 1..Len(ps[k]) |-> ps[k][j].text]])

\* the text of every run of document d
TextsOf(d) ==
  ParagraphTexts(d.paragraphs) \o TableTexts(d.tables)
  \o Flat([k \in 1..Len(d.sections) |->
             ParagraphTexts(d.sections[k].header.paragraphs)
             \o TableTexts(d.sections[k].header.tables)
             \o ParagraphTexts(d.sections[k].footer.paragraphs)
             \o TableTexts(d.sections[k].footer.tables)])

\* document n is document o with the text of every run masked and nothing
\* else changed
Walked(o, n) ==
  LET before == TextsOf(o)
      after  == TextsOf(n)
  IN  /\ ShapeOf(n) = ShapeOf(o)
      /\ Len(after) = Len(before)
      /\ \A k \in 1..Len(before) :
           after[k] = IF before[k] = <<>> THEN <<>> ELSE anonymise_text(before[k])

\* the document the file being processed holds on disk
OnDisk == disk[file_path].content[1]

\* C3: when the walk over a document is over, every run with text holds
\* anonymise_text of its original text, every empty run is unchanged, and
\* the structure and the formatting are those of the original; the file
\* saved holds that document.
C3_WalkRewritesRunTexts ==
  /\ pc = "save" => Walked(OnDisk, doc[1])
  /\ \A k \in 1..Len(writes) :
       writes[k].whole =>
         Walked(disk[writes[k].from].content[1], disk[writes[k].path].content[1])

\* the run of the table nested in the first cell of the body table
NestedRun(d) == d.tables[1][1][1].tables[1][1][1].paragraphs[1][1]

C3_Witness ==
  /\ pc = "save"
  /\ NestedRun(OnDisk).text = SensitiveText
  /\ NestedRun(doc[1]).text # SensitiveText
  /\ OnDisk.paragraphs[1][1].text = <<>>
  /\ doc[1].paragraphs[1][2].text = PlainText
  /\ Walked(OnDisk, doc[1])

(***************************************************************************)
(* Properties of the batch.                                                *)
(***************************************************************************)
Printed(m) == \E k \in 1..Len(console) : console[k].msg = m

Reported(n) ==
  \E k \in 1..Len(console) : console[k] = Message("Error processing", n)

SavedWhole(n) ==
  \E k \in 1..Len(writes) : writes[k].from = n /\ writes[k].whole

\* C7: the files are attempted in list order, each once; a run that no
\* interrupt ends has attempted every selected file, has reported each file
\* that failed, has saved each of the others, and ends with the message
\* that the batch is complete.
C7_FailureContained ==
  /\ started = SubSeq(files, 1, idx)
  /\ (pc = "returned" /\ files # <<>> /\ ~interrupted) =>
       /\ started = files
       /\ console[Len(console)].msg = "Anonymisation complete"
       /\ \A k \in 1..Len(files) : Reported(files[k]) # SavedWhole(files[k])

C7_Witness ==
  /\ pc = "returned"
  /\ ~interrupted
  /\ Len(files) >= 2
  /\ Reported(files[1])
  /\ SavedWhole(files[2])
  /\ Printed("Anonymisation complete")

\* the name ends in .docx, in any case, after at least one other character
HasDocxExtension(n) ==
  /\ Len(n) > 5
  /\ n[Len(n) - 4] = "."
  /\ n[Len(n) - 3] \in {"d", "D"}
  /\ n[Len(n) - 2] \in {"o", "O"}
  /\ n[Len(n) - 1] \in {"c", "C"}
  /\ n[Len(n)] \in {"x", "X"}

HasPrefix(n) == Len(n) >= Len(Prefix) /\ \A k \in 1..Len(Prefix) : n[k] = Prefix[k]

Eligible ==
  {n \in DOMAIN disk : disk[n].kind = "file" /\ HasDocxExtension(n) /\ ~HasPrefix(n)}

Selected == {files[k] : k \in 1..Len(files)}

ScenarioFolder == {ReportName, Prefix \o ReportName, NotesName}

\* C8: the batch takes exactly the regular files with extension .docx (in
\* any case) whose name does not start with Anonymised_, each once; every
\* write goes to Anonymised_ + the name of the file being processed, so no
\* selected file is written to; a run without failures writes one file per
\* selected file, and exactly Anonymised_report.docx for the folder of
\* report.docx, Anonymised_report.docx and notes.txt.
C8_SelectionAndNaming ==
  /\ (folder_ok /\ pc \notin {"collect", "propagated"}) =>
       /\ Selected = Eligible
       /\ Cardinality(Selected) = Len(files)
  /\ \A k \in 1..Len(writes) :
       /\ writes[k].from \in Selected
       /\ writes[k].path = Prefix \o writes[k].from
       /\ writes[k].path \notin Selected
  /\ \A n \in Selected : disk[n] = FileEntry(SmallDocument)
  /\ (Printed("Anonymisation complete") /\ \A n \in Selected : ~Reported(n)) =>
       /\ Len(writes) = Len(files)
       /\ DOMAIN disk = ScenarioFolder
            => writes = <<[path |-> Prefix \o ReportName, from |-> ReportName,
                           whole |-> TRUE]>>

C8_Witness ==
  /\ DOMAIN disk = ScenarioFolder
  /\ Printed("Anonymisation complete")
  /\ files = <<ReportName>>
  /\ Len(writes) = 1
  /\ writes[1].whole
  /\ disk[Prefix \o ReportName] # FileEntry(SmallDocument)

\* C9: once the interrupt has arrived in the batch loop the run has
\* returned with the message that it was interrupted, no file beyond the
\* one in progress has been started, and every output file that was
\* written whole is still whole.
C9_InterruptEndsRun ==
  /\ (interrupted /\ files # <<>>) =>
       /\ pc = "returned"
       /\ console[Len(console)].msg = "Process interrupted by user."
       /\ started = SubSeq(files, 1, idx)
  /\ \A k \in 1..Len(writes) :
       writes[k].whole => disk[writes[k].path].content # <<>>

C9_Witness ==
  /\ interrupted
  /\ pc = "returned"
  /\ Len(started) < Len(files)
  /\ \E k \in 1..Len(writes) : writes[k].whole
  /\ Printed("Process interrupted by user.")

=============================================================================
